---------------------------- MODULE Spec2Model ----------------------------
(***************************************************************************)
(* A model of the audit route of quartz-ai (src/unnamed/part_003): the     *)
(* POST handler, the page fetcher scrapeWebsite, the structural extractor  *)
(* extractTextFromHTML, the ordered model fallback loop and the recovery   *)
(* of one JSON object from the model's reply.                              *)
(*                                                                         *)
(* The file holds the route twice (lines 1-315 and 316-708); the two      *)
(* versions differ in the wording of the prompt only, so one model stands  *)
(* for both.                                                               *)
(*                                                                         *)
(* One request is followed from its arrival to its response.  Everything   *)
(* the handler receives from outside (the environment's credential, the    *)
(* request body, what the target site answers, what each inference         *)
(* backend answers) is chosen nondeterministically from small sets.        *)
(*                                                                         *)
(* Strings that the code only measures, trims and cuts are sequences of    *)
(* runs [c, n]: n characters of class c ("ws" whitespace, "x" any other    *)
(* character).  Model replies are sequences of JSON tokens.  Error         *)
(* messages are sequences of words.                                        *)
(***************************************************************************)
EXTENDS Integers, Sequences, FiniteSets, TLC

VARIABLES
    apiKey,            \* process.env.GOOGLE_GENERATIVE_AI_API_KEY is set
    request,           \* the request as sent: [kind, type, content]
    pc,                \* the handler's position
    contentToAnalyze,  \* POST local
    contentType,       \* POST local
    i,                 \* position of the for-of loop in models (1-based)
    text,              \* POST local: the last backend reply
    errorLog,          \* POST local: one entry per caught backend error
    inFlight,          \* backends whose generateContent call is pending
    events,            \* history of backend calls: invoke / settle
    fetches,           \* history of fetch() calls issued by scrapeWebsite
    scrapeError,       \* the error thrown inside scrapeWebsite's try block
    timerArmed,        \* the 20 s abort timer is pending
    console,           \* messages written by console.error
    responses,         \* HTTP responses produced for the request
    bodyReads,         \* number of request.json() calls made so far
    responseStatus,    \* response.status of the target (0: no response)
    fetchedHtml,       \* scrapeWebsite's html: the body of the target
    auditStatus,       \* page.tsx: status, the page's AuditStatus
    progress,          \* page.tsx: the progress shown while processing
    logs,              \* page.tsx: the ProcessingLog entries
    sims,              \* simulateProcessing calls started: [type, step]
    api,               \* where performAudit stands with its fetch
    captured,          \* the progress that performAudit's closure holds
    decreased          \* a write lowered progress during this processing

\* the state of the page in the browser
clientVars == <<auditStatus, progress, logs, sims, api, captured, decreased>>

\* the state of one request in the route handler
serverVars == <<apiKey, request, pc, contentToAnalyze, contentType, i, text,
                errorLog, inFlight, events, fetches, scrapeError, timerArmed,
                console, responses, bodyReads, responseStatus, fetchedHtml>>

vars == <<serverVars, clientVars>>

-----------------------------------------------------------------------------
(* Bounds of the model *)

\* longest run of equal characters in a submitted content
MaxRun == 2

\* number of distinct failure reasons a backend may throw
NumReasons == 2

-----------------------------------------------------------------------------
(* Strings as runs *)

Ws(n) == [c |-> "ws", n |-> n]
Ch(n) == [c |-> "x", n |-> n]
\* the literal prefixes 'http://' and 'https://'
Http == [c |-> "http://", n |-> 7]
Https == [c |-> "https://", n |-> 8]

\* String.prototype.startsWith, for a literal held as one run
StartsWith(s, lit) == s # <<>> /\ Head(s).c = lit

\* the length of the runs a..b of s, halving the range to keep the
\* evaluation shallow
RECURSIVE RunsLength(_, _, _)
RunsLength(s, a, b) ==
    IF a > b THEN 0
    ELSE IF a = b THEN s[a].n
    ELSE RunsLength(s, a, (a + b) \div 2)
            + RunsLength(s, (a + b) \div 2 + 1, b)

StrLength(s) == RunsLength(s, 1, Len(s))

RECURSIVE TrimStart(_)
TrimStart(s) ==
    IF s = <<>> THEN <<>>
    ELSE IF Head(s).c = "ws" THEN TrimStart(Tail(s))
    ELSE s

RECURSIVE TrimEnd(_)
TrimEnd(s) ==
    IF s = <<>> THEN <<>>
    ELSE IF s[Len(s)].c = "ws" THEN TrimEnd(SubSeq(s, 1, Len(s) - 1))
    ELSE s

\* a trim that strips nothing
Trim_none(s) == s

\* String.prototype.trim
Trim(s) == TrimEnd(TrimStart(s))

\* a substring that cuts nothing
Substring_nocut(s, k) == s

\* String.prototype.substring(0, k)
\* the first k characters of the runs a..b of s: all of the first half
\* and what is left of k from the second, or the first k characters of the
\* first half
RECURSIVE CutRuns(_, _, _, _)
CutRuns(s, a, b, k) ==
    IF a > b \/ k <= 0 THEN <<>>
    ELSE IF a = b
         THEN IF s[a].n <= k THEN <<s[a]>> ELSE <<[c |-> s[a].c, n |-> k]>>
    ELSE IF RunsLength(s, a, (a + b) \div 2) >= k
         THEN CutRuns(s, a, (a + b) \div 2, k)
    ELSE SubSeq(s, a, (a + b) \div 2)
            \o CutRuns(s, (a + b) \div 2 + 1, b,
                       k - RunsLength(s, a, (a + b) \div 2))

Substring(s, k) == CutRuns(s, 1, Len(s), k)

-----------------------------------------------------------------------------
(* JavaScript values of body.content *)

JSString(s) == [t |-> "string", s |-> s, n |-> 0]
JSNumber(n) == [t |-> "number", s |-> <<>>, n |-> n]
JSUndefined == [t |-> "undefined", s |-> <<>>, n |-> 0]

\* !v
Falsy(v) ==
    \/ v.t = "undefined"
    \/ v.t = "string" /\ v.s = <<>>
    \/ v.t = "number" /\ v.n = 0

\* v has a trim / substring method
IsString(v) == v.t = "string"

Snippets ==
    {<<>>}
    \cup {<<Ws(k)>> : k \in 1..MaxRun}
    \cup {<<Ch(k)>> : k \in 1..MaxRun}
    \cup {<<Ws(1), Ch(k), Ws(1)>> : k \in 1..MaxRun}
    \cup {<<Ch(100001)>>}

Urls ==
    { <<>>, <<Ch(MaxRun)>>, <<Http, Ch(1)>>, <<Https, Ch(1)>>,
      <<Ws(1), Https, Ch(1), Ws(1)>>, <<Ws(1), Ch(1)>> }

NonStrings == {JSNumber(0), JSNumber(7), JSUndefined}

Contents(type) ==
    {JSString(s) : s \in IF type = "url" THEN Urls ELSE Snippets}
    \cup NonStrings

\* what request.json() can meet: a body that is no JSON, the JSON null, or
\* an object with type and content
Requests ==
    {[kind |-> k, type |-> "code", content |-> JSUndefined] :
        k \in {"unreadable", "null"}}
    \cup UNION {{[kind |-> "object", type |-> ty, content |-> c] :
                    c \in Contents(ty)} : ty \in {"url", "code"}}

-----------------------------------------------------------------------------
(* Error messages *)

Includes(msg, word) == \E k \in 1..Len(msg) : msg[k] = word

TypeErrorMsg == <<"TypeError">>
SyntaxErrorMsg == <<"SyntaxError">>
BodyErrorMsg == <<"SyntaxError", "request", "body">>

\* errors thrown inside scrapeWebsite
Err(name, message) == [name |-> name, message |-> message]
NoError == Err("none", <<>>)

TimeoutMsg == <<"Timeout:", "La web tardo demasiado en responder">>
ShortBodyMsg == <<"La respuesta del servidor es demasiado corta.">>
EmptyWebMsg == <<"El contenido de la web esta vacio">>
AccessPrefix == <<"No se pudo acceder a la web:">>

\* what a rejected fetch() or response.text() reports
NetworkErrors == {<<"fetch failed">>, <<"terminated">>}

Statuses == {200, 400, 403, 429, 503}

\* response.ok
Ok(status) == status >= 200 /\ status <= 299

StatusText(status) == IF status = 503 THEN "Service Unavailable" ELSE "OK"

\* if (!response.ok) throw new Error(...)
HttpErrorMsg(status) ==
    IF status = 403
    THEN <<"HTTP", "403", "Acceso denegado.", "bloqueando bots">>
    ELSE IF status = 429
    THEN <<"HTTP", "429", "Demasiadas solicitudes.", "limitando el acceso">>
    ELSE IF status = 400
    THEN <<"HTTP", "400", "Solicitud invalida.", "rechazando la conexion">>
    ELSE <<"HTTP", ToString(status), StatusText(status)>>

\* a catch block that wraps whatever is not an abort
ScrapeCatch_wrapAll(error) ==
    IF error.name = "AbortError" THEN TimeoutMsg
    ELSE AccessPrefix \o error.message

\* a catch block without the AbortError test
ScrapeCatch_noTimeout(error) ==
    IF Includes(error.message, "HTTP") THEN error.message
    ELSE AccessPrefix \o error.message

\* the catch block of scrapeWebsite: the message of the error it throws
ScrapeCatch(error) ==
    IF error.name = "AbortError" THEN TimeoutMsg
    ELSE IF Includes(error.message, "HTTP") THEN error.message
    ELSE AccessPrefix \o error.message

\* a normalisation that tests the scheme without trimming first
NormalizeUrl_untrimmed(url) ==
    IF ~StartsWith(url, "http://") /\ ~StartsWith(url, "https://")
    THEN <<Https>> \o url
    ELSE url

\* validUrl: trimmed, 'https://' prefixed when no scheme is present
NormalizeUrl(url) ==
    LET validUrl == Trim(url) IN
    IF ~StartsWith(validUrl, "http://") /\ ~StartsWith(validUrl, "https://")
    THEN <<Https>> \o validUrl
    ELSE validUrl

ExhaustedHead == "Google bloqueo todos los modelos (Limite 0)."

\* an exhaustion error that leaves the log out
ExhaustedMsg_nolog(log) == <<ExhaustedHead>>

\* the message of the error thrown after the loop
ExhaustedMsg(log) == <<ExhaustedHead>> \o log

-----------------------------------------------------------------------------
(* The model's reply and the JSON recovered from it *)

RECURSIVE EndOfValue(_, _), EndOfMembers(_, _), EndOfElements(_, _)

\* the position after the JSON value that starts at t[k]; 0 when none does
EndOfValue(t, k) ==
    IF k > Len(t) THEN 0
    ELSE IF t[k] \in {"1", "s"} THEN k + 1
    ELSE IF t[k] = "{"
         THEN IF k + 1 <= Len(t) /\ t[k + 1] = "}" THEN k + 2
              ELSE EndOfMembers(t, k + 1)
    ELSE IF t[k] = "["
         THEN IF k + 1 <= Len(t) /\ t[k + 1] = "]" THEN k + 2
              ELSE EndOfElements(t, k + 1)
    ELSE 0

EndOfMembers(t, k) ==
    IF k + 1 <= Len(t) /\ t[k] = "s" /\ t[k + 1] = ":"
    THEN LET j == EndOfValue(t, k + 2) IN
         IF j = 0 \/ j > Len(t) THEN 0
         ELSE IF t[j] = "}" THEN j + 1
         ELSE IF t[j] = "," THEN EndOfMembers(t, j + 1)
         ELSE 0
    ELSE 0

EndOfElements(t, k) ==
    LET j == EndOfValue(t, k) IN
    IF j = 0 \/ j > Len(t) THEN 0
    ELSE IF t[j] = "]" THEN j + 1
    ELSE IF t[j] = "," THEN EndOfElements(t, j + 1)
    ELSE 0

\* JSON.parse succeeds
ParsesAsJSON(t) == EndOfValue(t, 1) = Len(t) + 1

\* text.match(/\{[\s\S]*\}/): from the first "{" to the last "}", or null
\* (here <<>>) when no "}" follows a "{"
MatchBraces(t) ==
    LET opens == {k \in 1..Len(t) : t[k] = "{"}
        closes == {k \in 1..Len(t) : t[k] = "}"}
    IN  IF opens = {} \/ closes = {} THEN <<>>
        ELSE LET first == CHOOSE k \in opens : \A m \in opens : k <= m
                 last == CHOOSE k \in closes : \A m \in closes : k >= m
             IN  IF first < last THEN SubSeq(t, first, last) ELSE <<>>

\* const finalJson = match ? match[0] : text
FinalJson(t) == IF MatchBraces(t) # <<>> THEN MatchBraces(t) ELSE t

Replies ==
    { <<>>,                                   \* empty reply
      <<"{", "}">>,                           \* {}
      <<"{", "s", ":", "[", "]", "}">>,       \* {"defects":[]}
      <<"p", "{", "s", ":", "1", "}">>,       \* prose, then an object
      <<"{", "}", "p">>,                      \* an object, then prose
      <<"p", "{", "p", "}", "{", "}">>,       \* prose with braces, an object
      <<"p">>,                                \* prose only
      <<"1">>,                                \* a bare JSON scalar
      <<"{", "s">> }                          \* a cut-off object

-----------------------------------------------------------------------------
(* HTML documents and extractTextFromHTML *)

(* A document is a sequence of groups [kind, n, k]: k consecutive elements *)
(* of one kind, each with n characters of content:                        *)
(*   script  <script>BODY</script>, n = length of the trimmed body        *)
(*   style   <style>BODY</style>                                          *)
(*   comment <!--BODY-->                                                  *)
(*   meta    a <meta ...> tag of n characters                             *)
(*   link    <a href="HREF">TEXT</a>, HREF and TEXT of n characters each  *)
(*   form    a <form>...</form> block of n characters                     *)
(*   input   an <input ...> tag of n characters                           *)
(*   h1, p   <h1>TEXT</h1>, <p>TEXT</p>, TEXT of n characters             *)
(*   other   n characters of markup no pass looks at                      *)
El(kind, n, k) == [kind |-> kind, n |-> n, k |-> k]

\* the length of one element's markup
ElementLength(e) ==
    CASE e.kind = "script" -> 8 + e.n + 9
      [] e.kind = "style" -> 7 + e.n + 8
      [] e.kind = "comment" -> 4 + e.n + 3
      [] e.kind = "link" -> 9 + e.n + 2 + e.n + 4
      [] e.kind = "h1" -> 4 + e.n + 5
      [] e.kind = "p" -> 3 + e.n + 4
      [] OTHER -> e.n

\* html.length
RECURSIVE HtmlLength(_)
HtmlLength(h) ==
    IF h = <<>> THEN 0
    ELSE ElementLength(Head(h)) * Head(h).k + HtmlLength(Tail(h))

MaxScripts == 10
MaxScriptLength == 2000
MaxLinks == 50
MinVisibleText == 3
FallbackThreshold == 500
CleanHtmlLimit == 30000
ExtractLimit == 100000
MinHtmlLength == 100

\* a minimum that ignores its second argument
Min_first(a, b) == a

Min(a, b) == IF a < b THEN a ELSE b

RECURSIVE Repeat(_, _)
Repeat(s, k) == IF k <= 0 THEN <<>> ELSE s \o Repeat(s, k - 1)

\* one emitted segment: its text up to the last non-blank character, then
\* the line breaks that end it
Segment(tag, n, breaks) == <<[c |-> tag, n |-> n], Ws(breaks)>>

\* a pass 1 whose scriptCount counts every match, emitted or not
RECURSIVE ScriptsPass_firstMatches(_, _)
ScriptsPass_firstMatches(h, scriptCount) ==
    IF h = <<>> THEN <<>>
    ELSE LET e == Head(h)
             take == IF e.k < MaxScripts - scriptCount THEN e.k
                     ELSE MaxScripts - scriptCount
         IN  (IF e.kind = "script" /\ e.n > 0 /\ e.n < MaxScriptLength
              THEN Repeat(Segment("SCRIPT", 9 + e.n + 10, 2), take)
              ELSE <<>>)
             \o ScriptsPass_firstMatches(Tail(h),
                    scriptCount + (IF e.kind = "script" THEN take ELSE 0))

\* 1. `[SCRIPT]\n${scriptContent}\n[/SCRIPT]\n\n`, at most 10, each body of
\* 1 to 1999 characters; scriptCount counts the scripts emitted
RECURSIVE ScriptsPass(_, _)
ScriptsPass(h, scriptCount) ==
    IF h = <<>> THEN <<>>
    ELSE LET e == Head(h) IN
         IF e.kind = "script" /\ e.n > 0 /\ e.n < MaxScriptLength
         THEN LET take == Min(e.k, MaxScripts - scriptCount) IN
              Repeat(Segment("SCRIPT", 9 + e.n + 10, 2), take)
                  \o ScriptsPass(Tail(h), scriptCount + take)
         ELSE ScriptsPass(Tail(h), scriptCount)

\* 3. `[LINK] href="${link[1]}" text="${...}"\n`, at most 50
RECURSIVE LinksPass(_, _)
LinksPass(h, linkCount) ==
    IF h = <<>> THEN <<>>
    ELSE LET e == Head(h) IN
         IF e.kind = "link"
         THEN LET take == Min(e.k, MaxLinks - linkCount) IN
              Repeat(Segment("LINK", 13 + e.n + 8 + e.n + 1, 1), take)
                  \o LinksPass(Tail(h), linkCount + take)
         ELSE LinksPass(Tail(h), linkCount)

\* 2, 4, 5: every <meta>, <form> and <input> of the document
RECURSIVE AllOfPass(_, _, _, _, _)
AllOfPass(h, kind, tag, wrap, breaks) ==
    IF h = <<>> THEN <<>>
    ELSE LET e == Head(h) IN
         (IF e.kind = kind
          THEN Repeat(Segment(tag, wrap + e.n, breaks), e.k)
          ELSE <<>>)
         \o AllOfPass(Tail(h), kind, tag, wrap, breaks)

\* 6. `[${tag.toUpperCase()}] ${content}\n` when content.length > 3
RECURSIVE TagPass(_, _, _, _)
TagPass(h, kind, tag, wrap) ==
    IF h = <<>> THEN <<>>
    ELSE LET e == Head(h) IN
         (IF e.kind = kind /\ e.n > MinVisibleText
          THEN Repeat(Segment(tag, wrap + e.n, 1), e.k)
          ELSE <<>>)
         \o TagPass(Tail(h), kind, tag, wrap)

\* the text the six passes add up to
StructuredText(h) ==
    ScriptsPass(h, 0)
    \o AllOfPass(h, "meta", "META", 7, 1)
    \o LinksPass(h, 0)
    \o AllOfPass(h, "form", "FORM", 7 + 8, 2)
    \o AllOfPass(h, "input", "INPUT", 8, 1)
    \o TagPass(h, "h1", "H1", 5)
    \o TagPass(h, "p", "P", 4)

\* the length of html without its scripts, styles and comments
RECURSIVE CleanLength(_)
CleanLength(h) ==
    IF h = <<>> THEN 0
    ELSE (IF Head(h).kind \in {"script", "style", "comment"} THEN 0
          ELSE ElementLength(Head(h)) * Head(h).k)
         + CleanLength(Tail(h))

\* a fallback that returns nothing
FallbackBlock_empty(h) == <<>>

\* a fallback that wraps the cleaned document whole
FallbackBlock_uncut(h) ==
    <<[c |-> "HTML CONTENT", n |-> 15 + CleanLength(h) + 16]>>

\* 7. `[HTML CONTENT]\n${cleanHtml}\n[/HTML CONTENT]`, cleanHtml cut to 30000
FallbackBlock(h) ==
    <<[c |-> "HTML CONTENT",
       n |-> 15 + Min(CleanLength(h), CleanHtmlLimit) + 16]>>

\* a test on the length as emitted, line breaks at the end included
UsesFallback_untrimmed(extractedText) ==
    StrLength(extractedText) < FallbackThreshold

\* a test that never chooses the fallback
UsesFallback_never(extractedText) == FALSE

\* if (extractedText.trim().length < 500)
UsesFallback(extractedText) ==
    StrLength(Trim(extractedText)) < FallbackThreshold

extractTextFromHTML(html) ==
    LET extractedText == StructuredText(html) IN
    Substring(IF UsesFallback(extractedText) THEN FallbackBlock(html)
              ELSE extractedText,
              ExtractLimit)

Htmls ==
    { <<>>,
      <<El("other", 99, 1)>>,
      <<El("other", 100, 1)>>,
      <<El("meta", 20, 1), El("style", 300, 1), El("other", 200, 1)>>,
      <<El("script", 40, 1), El("link", 30, 2), El("p", 600, 1)>>,
      <<El("form", 60000, 2)>>,
      <<El("meta", 492, 1)>>,
      <<El("other", 40000, 1)>>,
      <<El("meta", 493, 1)>>,
      <<El("script", 2000, 1), El("script", 1999, 1), El("other", 100, 1)>>,
      <<El("script", 5, 6), El("script", 2500, 3), El("script", 7, 6),
        El("link", 4, 51), El("p", 10, 1)>> }

-----------------------------------------------------------------------------
(* The fallback list *)

models ==
    <<"gemini-3-flash-preview", "gemini-2.5-flash-lite", "gemini-2.5-flash">>

\* e.message of a backend error, as words
Reasons == {<<"reason", ToString(r)>> : r \in 1..NumReasons}

\* what one generateContent call can end in
Outcomes ==
    {[kind |-> "throw", reason |-> r, text |-> <<>>] : r \in Reasons}
    \cup {[kind |-> "text", reason |-> <<>>, text |-> t] : t \in Replies}

\* the prompt embeds the content type and the content, cut at 100,000
\* characters, and an annotation when it was cut
PromptLimit == 100000

BuildPrompt(type, content) ==
    [contentType |-> type,
     content |-> Substring(content, PromptLimit),
     annotated |-> StrLength(content) > PromptLimit]

\* errorLog = ... in place of errorLog += ...
LogFailure_overwrite(log, modelName, reason) == <<modelName>> \o reason

\* errorLog += `[${modelName}]: ${e.message}. `
LogFailure(log, modelName, reason) == log \o <<modelName>> \o reason

\* a loop without its break
BreaksOn_never(t) == FALSE

\* if (text) break
BreaksOn(t) == t # <<>>

\* a loop that gives up after its first element
HasNext_never(k) == FALSE

\* the for-of loop has another element after position k
HasNext(k) == k < Len(models)

\* a loop that tries the same element again
Advance_stay(k) == k

\* the for-of loop moves to the next element
Advance(k) == k + 1

-----------------------------------------------------------------------------
(* Responses *)

NoBody == [error |-> <<>>, emptyResults |-> FALSE, causa |-> <<>>,
           solucion |-> <<>>, payload |-> <<>>]

MissingKeyResponse ==
    [status |-> 500, body |-> [NoBody EXCEPT !.error = <<"Falta API KEY">>]]

EmptyContentResponse ==
    [status |-> 400,
     body |-> [NoBody EXCEPT !.error = <<"El contenido esta vacio.">>,
                             !.emptyResults = TRUE]]

\* an outer catch that answers 500
CatchAllResponse_500 ==
    [status |-> 500,
     body |-> [NoBody EXCEPT !.error = <<"CUOTA AGOTADA (LIMITE 0)">>,
                             !.causa = <<"Google restringio el acceso">>,
                             !.solucion = <<"Vincula una tarjeta">>]]

\* the body of the outer catch: fixed texts, whatever was caught
CatchAllResponse ==
    [status |-> 429,
     body |-> [NoBody EXCEPT !.error = <<"CUOTA AGOTADA (LIMITE 0)">>,
                             !.causa = <<"Google restringio el acceso">>,
                             !.solucion = <<"Vincula una tarjeta">>]]

\* a scraping error that reaches the outer catch
ScrapeErrorResponse_catchAll(msg) == CatchAllResponse

\* the inner catch of POST around scrapeWebsite
ScrapeErrorResponse(msg) ==
    [status |-> 400,
     body |-> [NoBody EXCEPT !.error = msg, !.emptyResults = TRUE]]

ResultResponse(parsed) ==
    [status |-> 200, body |-> [NoBody EXCEPT !.payload = parsed]]

Respond(r) ==
    /\ responses' = Append(responses, r)
    /\ pc' = "done"

\* an error thrown inside scrapeWebsite's try: its catch rethrows, and
\* POST's inner catch answers 400 with the rethrown message
ScrapeFails(error) ==
    /\ scrapeError' = error
    /\ Respond(ScrapeErrorResponse(ScrapeCatch(error)))

\* an outer catch that logs and returns nothing
OuterCatch_silent(msg) ==
    /\ console' = Append(console, msg)
    /\ pc' = "done"
    /\ UNCHANGED responses

\* catch (error) { console.error(..., error.message); return 429 }
OuterCatch(msg) ==
    /\ console' = Append(console, msg)
    /\ Respond(CatchAllResponse)

-----------------------------------------------------------------------------
(* The state after the request arrived *)

\* the page as first rendered: useState('idle'), useState(0), useState([])
PageLoaded ==
    /\ auditStatus = "idle"
    /\ progress = 0
    /\ logs = <<>>
    /\ sims = <<>>
    /\ api = "none"
    /\ captured = 0
    /\ decreased = FALSE

Init ==
    /\ apiKey \in BOOLEAN
    /\ request \in Requests
    /\ pc = "start"
    /\ contentToAnalyze = JSUndefined
    /\ contentType = "none"
    /\ i = 1
    /\ text = <<>>
    /\ errorLog = <<>>
    /\ inFlight = {}
    /\ events = <<>>
    /\ fetches = <<>>
    /\ scrapeError = NoError
    /\ timerArmed = FALSE
    /\ console = <<>>
    /\ responses = <<>>
    /\ bodyReads = 0
    /\ responseStatus = 0
    /\ fetchedHtml = <<>>
    /\ PageLoaded

-----------------------------------------------------------------------------
(* POST *)

\* a guard that lets every request through
KeyMissing_never(key) == FALSE

\* !apiKey
KeyMissing(key) == ~key

\* if (!apiKey) return 500
CheckApiKey ==
    /\ pc = "start"
    /\ UNCHANGED clientVars
    /\ IF KeyMissing(apiKey)
       THEN Respond(MissingKeyResponse)
       ELSE pc' = "readBody" /\ UNCHANGED responses
    /\ UNCHANGED <<apiKey, request, contentToAnalyze, contentType, i, text,
                   errorLog, inFlight, events, fetches, scrapeError,
                   timerArmed, console, bodyReads, responseStatus,
                   fetchedHtml>>

\* a dispatch that scrapes whatever the type
IsUrl_always(type) == TRUE

\* body.type === 'url'
IsUrl(type) == type = "url"

\* const body = await request.json(); contentToAnalyze = body.content;
\* contentType = body.type; if (body.type === 'url') ...
ReadBody ==
    /\ pc = "readBody"
    /\ UNCHANGED clientVars
    /\ bodyReads' = bodyReads + 1
    /\ IF request.kind = "unreadable"
       THEN /\ OuterCatch(BodyErrorMsg)
            /\ UNCHANGED <<contentToAnalyze, contentType>>
       ELSE IF request.kind = "null"
       THEN /\ OuterCatch(TypeErrorMsg)
            /\ UNCHANGED <<contentToAnalyze, contentType>>
       ELSE /\ contentToAnalyze' = request.content
            /\ contentType' = request.type
            /\ pc' = IF IsUrl(request.type) THEN "scrape" ELSE "validate"
            /\ UNCHANGED <<console, responses>>
    /\ UNCHANGED <<apiKey, request, i, text, errorLog, inFlight, events,
                   fetches, scrapeError, timerArmed, responseStatus,
                   fetchedHtml>>

\* scrapeWebsite up to its first await: validUrl, the abort timer, fetch()
ScrapeBegin ==
    /\ pc = "scrape"
    /\ UNCHANGED clientVars
    /\ IF IsString(request.content)
       THEN /\ fetches' = Append(fetches, NormalizeUrl(request.content.s))
            /\ timerArmed' = TRUE
            /\ pc' = "fetching"
            /\ UNCHANGED <<responses, scrapeError>>
       ELSE /\ ScrapeFails(Err("TypeError", TypeErrorMsg))
            /\ UNCHANGED <<fetches, timerArmed>>
    /\ UNCHANGED <<apiKey, request, contentToAnalyze, contentType, i, text,
                   errorLog, inFlight, events, console, bodyReads,
                   responseStatus, fetchedHtml>>

\* setTimeout(() => controller.abort(), 20000) fires: a pending fetch
\* rejects with AbortError; after the fetch has settled nothing listens
TimerFires ==
    /\ timerArmed
    /\ UNCHANGED clientVars
    /\ timerArmed' = FALSE
    /\ IF pc = "fetching"
       THEN ScrapeFails(Err("AbortError", <<"This operation was aborted">>))
       ELSE UNCHANGED <<pc, responses, scrapeError>>
    /\ UNCHANGED <<responseStatus, fetchedHtml>>
    /\ UNCHANGED <<apiKey, request, contentToAnalyze, contentType, i, text,
                   errorLog, inFlight, events, fetches, console, bodyReads>>

\* await fetch(...) settles: it rejects, or the response headers arrive;
\* clearTimeout(timeoutId); if (!response.ok) throw
FetchSettles ==
    /\ pc = "fetching"
    /\ UNCHANGED clientVars
    /\ \/ \E m \in NetworkErrors :
            /\ ScrapeFails(Err("TypeError", m))
            /\ UNCHANGED <<timerArmed, responseStatus>>
       \/ \E status \in Statuses :
            /\ responseStatus' = status
            /\ timerArmed' = FALSE
            /\ IF Ok(status)
               THEN /\ pc' = "readingBody"
                    /\ UNCHANGED <<responses, scrapeError>>
               ELSE ScrapeFails(Err("Error", HttpErrorMsg(status)))
    /\ UNCHANGED fetchedHtml
    /\ UNCHANGED <<apiKey, request, contentToAnalyze, contentType, i, text,
                   errorLog, inFlight, events, fetches, console, bodyReads>>

\* await response.text() settles; the length check, extractTextFromHTML,
\* the empty check; back in POST: contentToAnalyze = scrapedContent
BodySettles ==
    /\ pc = "readingBody"
    /\ UNCHANGED clientVars
    /\ \/ \E m \in NetworkErrors :
            /\ ScrapeFails(Err("TypeError", m))
            /\ UNCHANGED <<contentToAnalyze, contentType, fetchedHtml>>
       \/ \E doc \in Htmls :
            LET textContent == extractTextFromHTML(doc) IN
            /\ fetchedHtml' = doc
            /\ IF HtmlLength(doc) < MinHtmlLength
               THEN /\ ScrapeFails(Err("Error", ShortBodyMsg))
                    /\ UNCHANGED <<contentToAnalyze, contentType>>
               ELSE IF StrLength(Trim(textContent)) = 0
               THEN /\ ScrapeFails(Err("Error", EmptyWebMsg))
                    /\ UNCHANGED <<contentToAnalyze, contentType>>
               ELSE /\ contentToAnalyze' = JSString(textContent)
                    /\ contentType' = "contenido real de la web"
                    /\ pc' = "validate"
                    /\ UNCHANGED <<responses, scrapeError>>
    /\ UNCHANGED <<apiKey, request, i, text, errorLog, inFlight, events,
                   fetches, timerArmed, console, bodyReads, responseStatus>>

\* if (!contentToAnalyze || contentToAnalyze.trim().length === 0) return 400
ValidateContent ==
    /\ pc = "validate"
    /\ UNCHANGED clientVars
    /\ IF Falsy(contentToAnalyze)
       THEN Respond(EmptyContentResponse) /\ UNCHANGED console
       ELSE IF ~IsString(contentToAnalyze)
       THEN OuterCatch(TypeErrorMsg)
       ELSE IF StrLength(Trim(contentToAnalyze.s)) = 0
       THEN Respond(EmptyContentResponse) /\ UNCHANGED console
       ELSE pc' = "loop" /\ UNCHANGED <<console, responses>>
    /\ UNCHANGED <<apiKey, request, contentToAnalyze, contentType, i, text,
                   errorLog, inFlight, events, fetches, scrapeError,
                   timerArmed, bodyReads, responseStatus, fetchedHtml>>

\* one iteration up to its await: getGenerativeModel, the prompt,
\* model.generateContent(prompt)
InvokeModel ==
    /\ pc = "loop"
    /\ UNCHANGED clientVars
    /\ inFlight' = inFlight \cup {models[i]}
    /\ events' = Append(events,
          [op |-> "invoke", model |-> models[i],
           prompt |-> BuildPrompt(contentType, contentToAnalyze.s),
           outcome |-> "pending", reason |-> <<>>, reply |-> <<>>])
    /\ pc' = "calling"
    /\ UNCHANGED <<apiKey, request, contentToAnalyze, contentType, i, text,
                   errorLog, fetches, scrapeError, timerArmed, console,
                   responses, bodyReads, responseStatus, fetchedHtml>>

\* the call returns or throws: text = result.response.text(); if (text)
\* break; catch: errorLog += ...; continue
ModelSettles ==
    /\ pc = "calling"
    /\ UNCHANGED clientVars
    /\ \E o \in Outcomes :
        LET kind == IF o.kind = "throw" THEN "throw"
                    ELSE IF o.text = <<>> THEN "empty" ELSE "text"
            leaves == o.kind = "text" /\ BreaksOn(o.text)
        IN  /\ inFlight' = inFlight \ {models[i]}
            /\ events' = Append(events,
                  [op |-> "settle", model |-> models[i],
                   prompt |-> BuildPrompt(contentType, contentToAnalyze.s),
                   outcome |-> kind, reason |-> o.reason, reply |-> o.text])
            /\ IF o.kind = "throw"
               THEN /\ errorLog' = LogFailure(errorLog, models[i], o.reason)
                    /\ UNCHANGED text
               ELSE /\ text' = o.text
                    /\ UNCHANGED errorLog
            /\ IF ~leaves /\ HasNext(i)
               THEN i' = Advance(i) /\ pc' = "loop"
               ELSE i' = i /\ pc' = "afterLoop"
    /\ UNCHANGED <<apiKey, request, contentToAnalyze, contentType, fetches,
                   scrapeError, timerArmed, console, responses, bodyReads,
                   responseStatus, fetchedHtml>>

\* if (!text) throw ...; match; JSON.parse; return 200
AfterLoop ==
    /\ pc = "afterLoop"
    /\ UNCHANGED clientVars
    /\ IF text = <<>>
       THEN OuterCatch(ExhaustedMsg(errorLog))
       ELSE IF ParsesAsJSON(FinalJson(text))
       THEN Respond(ResultResponse(FinalJson(text))) /\ UNCHANGED console
       ELSE OuterCatch(SyntaxErrorMsg)
    /\ UNCHANGED <<apiKey, request, contentToAnalyze, contentType, i, text,
                   errorLog, inFlight, events, fetches, scrapeError,
                   timerArmed, bodyReads, responseStatus, fetchedHtml>>

Next ==
    \/ CheckApiKey
    \/ ReadBody
    \/ ScrapeBegin
    \/ TimerFires
    \/ FetchSettles
    \/ BodySettles
    \/ ValidateContent
    \/ InvokeModel
    \/ ModelSettles
    \/ AfterLoop

Spec == Init /\ [][Next]_vars

\* every step the handler can take is taken: each call it awaits settles
\* (the request body, the fetch or its abort, the page body, each backend)
\* and the code between two awaits runs to the next one
FairSpec == Spec /\ WF_vars(Next)

-----------------------------------------------------------------------------
(* The earlier POST of src/unnamed/part_004: no scraping, no empty check, *)
(* and the request body read inside the fallback loop                     *)

\* request.json() on a body that was read before
BodyUsedMsg == <<"TypeError", "Body is unusable">>

\* ${body.content} in a template: a string as it is, else its text
TemplateText(v) ==
    IF IsString(v) THEN v.s
    ELSE IF v.t = "number" THEN <<Ch(1)>>
    ELSE <<Ch(9)>>

\* `Analiza este ${body.type}: ${body.content} ...`
VariantPrompt(type, content) ==
    [contentType |-> type, content |-> TemplateText(content),
     annotated |-> FALSE]

\* catch (e) { errorLog += ...; continue } for an error thrown before the
\* backend is called
FailsBeforeCall(msg) ==
    /\ errorLog' = LogFailure(errorLog, models[i], msg)
    /\ IF HasNext(i)
       THEN i' = Advance(i) /\ pc' = "readBody"
       ELSE i' = i /\ pc' = "afterLoop"
    /\ UNCHANGED <<contentToAnalyze, contentType>>

\* one iteration up to its first await: getGenerativeModel,
\* const body = await request.json(), then body.type and body.content
ReadBodyInLoop ==
    /\ pc = "readBody"
    /\ UNCHANGED clientVars
    /\ bodyReads' = bodyReads + 1
    /\ IF bodyReads > 0 THEN FailsBeforeCall(BodyUsedMsg)
       ELSE IF request.kind = "unreadable" THEN FailsBeforeCall(BodyErrorMsg)
       ELSE IF request.kind = "null" THEN FailsBeforeCall(TypeErrorMsg)
       ELSE /\ contentToAnalyze' = request.content
            /\ contentType' = request.type
            /\ pc' = "loop"
            /\ UNCHANGED <<i, errorLog>>
    /\ UNCHANGED <<apiKey, request, text, inFlight, events, fetches,
                   scrapeError, timerArmed, console, responses,
                   responseStatus, fetchedHtml>>

\* the prompt, then model.generateContent(prompt)
InvokeModelInLoop ==
    /\ pc = "loop"
    /\ UNCHANGED clientVars
    /\ inFlight' = inFlight \cup {models[i]}
    /\ events' = Append(events,
          [op |-> "invoke", model |-> models[i],
           prompt |-> VariantPrompt(contentType, contentToAnalyze),
           outcome |-> "pending", reason |-> <<>>, reply |-> <<>>])
    /\ pc' = "calling"
    /\ UNCHANGED <<apiKey, request, contentToAnalyze, contentType, i, text,
                   errorLog, fetches, scrapeError, timerArmed, console,
                   responses, bodyReads, responseStatus, fetchedHtml>>

\* the call returns or throws: text = result.response.text(); if (text)
\* break; catch: errorLog += ...; continue
ModelSettlesInLoop ==
    /\ pc = "calling"
    /\ UNCHANGED clientVars
    /\ \E o \in Outcomes :
        LET kind == IF o.kind = "throw" THEN "throw"
                    ELSE IF o.text = <<>> THEN "empty" ELSE "text"
            leaves == o.kind = "text" /\ BreaksOn(o.text)
        IN  /\ inFlight' = inFlight \ {models[i]}
            /\ events' = Append(events,
                  [op |-> "settle", model |-> models[i],
                   prompt |-> VariantPrompt(contentType, contentToAnalyze),
                   outcome |-> kind, reason |-> o.reason, reply |-> o.text])
            /\ IF o.kind = "throw"
               THEN /\ errorLog' = LogFailure(errorLog, models[i], o.reason)
                    /\ UNCHANGED text
               ELSE /\ text' = o.text
                    /\ UNCHANGED errorLog
            /\ IF ~leaves /\ HasNext(i)
               THEN i' = Advance(i) /\ pc' = "readBody"
               ELSE i' = i /\ pc' = "afterLoop"
    /\ UNCHANGED <<apiKey, request, contentToAnalyze, contentType, fetches,
                   scrapeError, timerArmed, console, responses, bodyReads,
                   responseStatus, fetchedHtml>>

VariantNext ==
    \/ CheckApiKey
    \/ ReadBodyInLoop
    \/ InvokeModelInLoop
    \/ ModelSettlesInLoop
    \/ AfterLoop

VariantSpec == Init /\ [][VariantNext]_vars

-----------------------------------------------------------------------------
(* The page of src/app/page.tsx: one audit at a time, each with a         *)
(* simulation that nothing stops                                          *)

\* audits a user starts in one visit
MaxAudits == 2

\* step.progress of the steps of simulateProcessing
Steps(type) ==
    IF type = "url" THEN <<15, 30, 45, 60, 75, 90, 95, 100>>
    ELSE <<20, 40, 55, 70, 85, 95, 100>>

\* addLog(message, status), with the audit whose code wrote the entry
AddLog(by, kind) == logs' = Append(logs, [by |-> by, kind |-> kind])

\* the audit in hand
CurrentAudit == Len(sims)

\* handleUrlSubmit / handleCodeSubmit, shown while idle: addLog, then
\* performAudit up to its await, simulateProcessing up to its first await
performAudit ==
    /\ auditStatus = "idle"
    /\ Len(sims) < MaxAudits
    /\ \E type \in {"url", "code"} :
          sims' = Append(sims, [type |-> type, step |-> 0])
    /\ auditStatus' = "processing"
    /\ progress' = 0
    /\ logs' = <<>>
    /\ api' = "pending"
    /\ captured' = progress
    /\ decreased' = FALSE
    /\ UNCHANGED serverVars

\* one turn of the loop of simulateProcessing: the delay is over,
\* setProgress(step.progress), addLog(step.message, step.status)
simulateProcessing ==
    /\ \E a \in DOMAIN sims :
          LET next == sims[a].step + 1 IN
          /\ next <= Len(Steps(sims[a].type))
          /\ sims' = [sims EXCEPT ![a].step = next]
          /\ progress' = Steps(sims[a].type)[next]
          /\ AddLog(a, "step")
          /\ decreased' = (decreased \/ (/\ auditStatus = "processing"
                                         /\ Steps(sims[a].type)[next]
                                               < progress))
    /\ UNCHANGED <<auditStatus, api, captured>>
    /\ UNCHANGED serverVars

\* await fetch('/api/audit') and response.json() settle: a body with an
\* error, a result, or a rejection caught by the catch block
AuditResponds ==
    /\ api = "pending"
    /\ \E outcome \in {"result", "error", "rejected"} :
          IF outcome = "result"
          THEN IF captured < 100
               THEN /\ api' = "waiting"
                    /\ UNCHANGED <<auditStatus, logs>>
               ELSE /\ api' = "none"
                    /\ auditStatus' = "completed"
                    /\ UNCHANGED logs
          ELSE /\ api' = "none"
               /\ AddLog(CurrentAudit, "error")
               /\ auditStatus' = "error"
    /\ UNCHANGED <<progress, sims, captured, decreased>>
    /\ UNCHANGED serverVars

\* the 500 ms wait of performAudit is over: setProgress(100), addLog,
\* setAuditResult, setStatus('completed')
SnapTo100 ==
    /\ api = "waiting"
    /\ api' = "none"
    /\ progress' = 100
    /\ AddLog(CurrentAudit, "complete")
    /\ auditStatus' = "completed"
    /\ UNCHANGED <<sims, captured, decreased>>
    /\ UNCHANGED serverVars

\* the button of the report and of the error card
handleReset ==
    /\ auditStatus \in {"completed", "error"}
    /\ auditStatus' = "idle"
    /\ progress' = 0
    /\ logs' = <<>>
    /\ UNCHANGED <<sims, api, captured, decreased>>
    /\ UNCHANGED serverVars

\* the page alone: the route is what AuditResponds draws its outcome from
ClientInit ==
    /\ PageLoaded
    /\ apiKey = TRUE
    /\ request = [kind |-> "object", type |-> "code", content |-> JSUndefined]
    /\ pc = "start"
    /\ contentToAnalyze = JSUndefined
    /\ contentType = "none"
    /\ i = 1
    /\ text = <<>>
    /\ errorLog = <<>>
    /\ inFlight = {}
    /\ events = <<>>
    /\ fetches = <<>>
    /\ scrapeError = NoError
    /\ timerArmed = FALSE
    /\ console = <<>>
    /\ responses = <<>>
    /\ bodyReads = 0
    /\ responseStatus = 0
    /\ fetchedHtml = <<>>

ClientNext ==
    \/ performAudit
    \/ simulateProcessing
    \/ AuditResponds
    \/ SnapTo100
    \/ handleReset

ClientSpec == ClientInit /\ [][ClientNext]_vars

-----------------------------------------------------------------------------
(* Vocabulary of the properties *)

Done == pc = "done"

Answer == responses[1]

IsSettle(e) == e.op = "settle"

LastEvent == events[Len(events)]

\* the model's position in the fallback list
ModelIndex(m) == CHOOSE k \in 1..Len(models) : models[k] = m

\* every backend of the list was called and none gave non-empty text
Exhausted ==
    /\ Len(events) = 2 * Len(models)
    /\ \A m \in 1..Len(models) :
          \E k \in 1..Len(events) :
              IsSettle(events[k]) /\ events[k].model = models[m]
    /\ \A k \in 1..Len(events) : events[k].reply = <<>>

\* the log entries the backends that threw should have left, in call order
RECURSIVE ThrownLog(_)
ThrownLog(ev) ==
    IF ev = <<>> THEN <<>>
    ELSE (IF Head(ev).outcome = "throw"
          THEN <<Head(ev).model>> \o Head(ev).reason
          ELSE <<>>)
         \o ThrownLog(Tail(ev))

\* a reply made of one JSON object with nothing but brace-free prose
\* around it, and that object
NonProse(t) == {k \in 1..Len(t) : t[k] # "p"}

ObjectOf(t) ==
    LET a == CHOOSE k \in NonProse(t) : \A m \in NonProse(t) : k <= m
        b == CHOOSE k \in NonProse(t) : \A m \in NonProse(t) : k >= m
    IN  SubSeq(t, a, b)

CarriesObject(t) ==
    /\ NonProse(t) # {}
    /\ Head(ObjectOf(t)) = "{"
    /\ ParsesAsJSON(ObjectOf(t))

\* every word of the response body
BodyWords(r) == r.body.error \o r.body.causa \o r.body.solucion

\* msg ends with the words of tail
EndsWith(msg, tail) ==
    /\ Len(tail) <= Len(msg)
    /\ SubSeq(msg, Len(msg) - Len(tail) + 1, Len(msg)) = tail

\* the request submits a code snippet that is empty or only whitespace
BlankSnippet ==
    /\ request.kind = "object"
    /\ request.type = "code"
    /\ request.content.t = "string"
    /\ \A k \in 1..Len(request.content.s) : request.content.s[k].c = "ws"

-----------------------------------------------------------------------------
(* Properties *)

\* C1: the first backend, in list order, that yields non-empty text ends
\* the loop: its reply is the text the orchestrator hands on (and what a
\* 200 answer is parsed from), every backend before it in the list was
\* tried and yielded nothing, and no backend is invoked after it.
C1_FirstNonEmptyWins ==
    \A k \in 1..Len(events) :
        (IsSettle(events[k]) /\ events[k].reply # <<>>) =>
            /\ k = Len(events)
            /\ text = events[k].reply
            /\ \A j \in 1..(k - 1) : events[j].reply = <<>>
            /\ \A m \in 1..(ModelIndex(events[k].model) - 1) :
                  \E j \in 1..(k - 1) :
                      IsSettle(events[j]) /\ events[j].model = models[m]
            /\ (Done /\ Answer.status = 200) =>
                  Answer.body.payload = FinalJson(events[k].reply)

\* C1 witness: the second backend answered after the first returned
\* nothing, and the request was answered with its payload.
C1_Witness ==
    /\ Done
    /\ Len(events) = 4
    /\ events[2].outcome = "empty"
    /\ events[4].outcome = "text"
    /\ Answer.status = 200

\* C2: the backends are invoked in list order, each at most once, one at
\* a time: the k-th call goes to the k-th backend of the list and starts
\* only after the call before it has ended without non-empty text; never
\* are two calls pending.
C2_OneAtATimeInOrder ==
    /\ Cardinality(inFlight) <= 1
    /\ Len(events) <= 2 * Len(models)
    /\ \A k \in 1..Len(events) :
          /\ events[k].model = models[(k + 1) \div 2]
          /\ events[k].op = IF k % 2 = 1 THEN "invoke" ELSE "settle"
          /\ (k % 2 = 1 /\ k > 1) =>
                events[k - 1].outcome \in {"throw", "empty"}
    /\ inFlight = IF Len(events) % 2 = 1 THEN {LastEvent.model} ELSE {}

\* C2 witness: all three backends were called, the third call is pending
\* alone.
C2_Witness ==
    /\ Len(events) = 5
    /\ inFlight = {models[3]}
    /\ events[2].outcome = "throw"
    /\ events[4].outcome = "empty"

\* C3: when every backend before the first one that answers threw, and
\* the answer carries a JSON object, the request is answered 200 with that
\* object, and the log names exactly the backends that threw, each with
\* its reason, in list order.
C3_ThrowersLoggedPayloadReturned ==
    (/\ Done
     /\ events # <<>>
     /\ IsSettle(LastEvent)
     /\ LastEvent.outcome = "text"
     /\ CarriesObject(LastEvent.reply)
     /\ \A k \in 1..(Len(events) - 1) :
           IsSettle(events[k]) => events[k].outcome = "throw")
    => /\ Answer.status = 200
       /\ Answer.body.payload = ObjectOf(LastEvent.reply)
       /\ errorLog = ThrownLog(events)
       /\ \A m \in 1..Len(models) :
             Includes(errorLog, models[m])
                 <=> m < ModelIndex(LastEvent.model)

\* C3 witness: A and B threw, C answered with an object.
C3_Witness ==
    /\ Done
    /\ Len(events) = 6
    /\ events[2].outcome = "throw"
    /\ events[4].outcome = "throw"
    /\ events[2].reason # events[4].reason
    /\ events[6].outcome = "text"
    /\ CarriesObject(events[6].reply)
    /\ Answer.status = 200

\* C4: every backend that failed, by throwing or by returning an empty
\* response, has an entry naming it in the diagnostic log.
C4_EveryFailureLogged ==
    \A k \in 1..Len(events) :
        (IsSettle(events[k]) /\ events[k].outcome \in {"throw", "empty"})
            => Includes(errorLog, events[k].model)

\* C5: when all three backends throw, the error raised after the loop
\* carries, after its fixed head, the identifier of each backend followed
\* by its reason, in list order.
C5_ExhaustionNamesAllThree ==
    (/\ Done
     /\ Len(events) = 2 * Len(models)
     /\ \A k \in 1..Len(events) :
           IsSettle(events[k]) => events[k].outcome = "throw")
    => /\ console = <<<<ExhaustedHead>> \o ThrownLog(events)>>
       /\ \A m \in 1..Len(models) : Includes(console[1], models[m])
       /\ \A m \in 1..Len(models) :
             console[1][3 * m - 1] = models[m]

\* C5 witness: three backends threw and the error was raised.
C5_Witness ==
    /\ Done
    /\ Len(events) = 6
    /\ \A k \in {2, 4, 6} : events[k].outcome = "throw"
    /\ events[2].reason # events[6].reason
    /\ console # <<>>

\* C6 as stated: when every backend has failed, the answer is 429 and its
\* body names each failed backend, beside the remediation text.
C6_BodyCarriesDiagnostic ==
    (Done /\ Exhausted)
    => /\ Answer.status = 429
       /\ Answer.body.solucion # <<>>
       /\ \A k \in 1..Len(events) :
             IsSettle(events[k])
                 => Includes(BodyWords(Answer), events[k].model)

\* C6 amended: when every backend has failed, the answer is 429 and its
\* body holds the fixed error label, cause and remediation text and names
\* no backend; the per-backend diagnostic is in the message of the raised
\* error, which is written to the console.
C6_ExhaustionAnswer ==
    (Done /\ Exhausted)
    => /\ Answer.status = 429
       /\ Answer.body.error = <<"CUOTA AGOTADA (LIMITE 0)">>
       /\ Answer.body.causa # <<>>
       /\ Answer.body.solucion # <<>>
       /\ Answer.body.payload = <<>>
       /\ \A m \in 1..Len(models) : ~Includes(BodyWords(Answer), models[m])
       /\ console = <<<<ExhaustedHead>> \o errorLog>>
       /\ \A k \in 1..Len(events) :
             events[k].outcome = "throw"
                 => Includes(console[1], events[k].model)

\* C6 witness: the list was exhausted by a throw, an empty reply and a
\* throw, and the request was answered.
C6_Witness ==
    /\ Done
    /\ Exhausted
    /\ events[2].outcome = "throw"
    /\ events[4].outcome = "empty"
    /\ events[6].outcome = "throw"
    /\ Answer.status = 429

\* C7: the run of the loop ends without text only after the last backend
\* of the list, and the exhaustion error is raised only when every backend
\* was called and none yielded non-empty text.
C7_NeverFailsFast ==
    /\ (/\ pc \in {"afterLoop", "done"}
        /\ events # <<>>
        /\ LastEvent.reply = <<>>)
       => Len(events) = 2 * Len(models)
    /\ (console # <<>> /\ Head(console[1]) = ExhaustedHead) => Exhausted

\* C7 witness: the first backend threw and the exhaustion error was
\* raised.
C7_Witness ==
    /\ console # <<>>
    /\ Head(console[1]) = ExhaustedHead
    /\ events[2].outcome = "throw"
    /\ events[6].outcome = "empty"

\* C8 as stated: a request whose code snippet is empty or only whitespace
\* is answered 400, with error and empty results, and no backend is
\* invoked.
C8_BlankSnippetIs400 ==
    (BlankSnippet /\ Done)
    => /\ Answer.status = 400
       /\ Answer.body.error # <<>>
       /\ Answer.body.emptyResults
       /\ events = <<>>

\* C8 amended: with the service credential configured, a request whose
\* code snippet is empty or only whitespace is answered 400, with error
\* and empty results; without the credential it is answered 500; in
\* neither case is a backend invoked or a page fetched.
C8_BlankSnippetRejected ==
    BlankSnippet
    => /\ events = <<>>
       /\ inFlight = {}
       /\ fetches = <<>>
       /\ pc \notin {"loop", "calling", "afterLoop"}
       /\ Done => IF apiKey
                  THEN /\ Answer.status = 400
                       /\ Answer.body.error # <<>>
                       /\ Answer.body.emptyResults
                       /\ Answer.body.payload = <<>>
                  ELSE Answer.status = 500

\* C8 witness: a snippet of whitespace only was answered 400.
C8_Witness ==
    /\ Done
    /\ BlankSnippet
    /\ request.content.s = <<Ws(MaxRun)>>
    /\ Answer.status = 400

\* C9: when the page retrieval of a URL request fails (timeout, status,
\* short body, network error), the answer is 400 with the message of the
\* cause as error and empty results, one fetch at most was issued and no
\* backend was invoked.
C9_RetrievalFailureIs400 ==
    scrapeError # NoError
    => /\ Done
       /\ request.type = "url"
       /\ Answer.status = 400
       /\ Answer.body.emptyResults
       /\ Answer.body.payload = <<>>
       /\ IF scrapeError.name = "AbortError"
          THEN Answer.body.error = TimeoutMsg
          ELSE EndsWith(Answer.body.error, scrapeError.message)
       /\ Len(fetches) <= 1
       /\ scrapeError.message # TypeErrorMsg => Len(fetches) = 1
       /\ events = <<>>
       /\ Len(responses) = 1

\* C9 witness: the page came back shorter than 100 characters.
C9_Witness ==
    /\ scrapeError.message = ShortBodyMsg
    /\ Len(fetches) = 1
    /\ Answer.status = 400

\* C10: a 429 answer is given only when every backend of the list was
\* tried and none yielded non-empty text.
C10_429OnlyWhenExhausted ==
    (Done /\ Answer.status = 429) => Exhausted

-----------------------------------------------------------------------------
(* The credential check *)

\* C11: without the credential the handler answers 500 at once: the
\* request body is never read, no page is fetched and no backend is
\* invoked, and the one response ever given is the 500 one.
C11_MissingKeyAnswers500First ==
    ~apiKey
    => /\ pc \in {"start", "done"}
       /\ bodyReads = 0
       /\ fetches = <<>>
       /\ events = <<>>
       /\ inFlight = {}
       /\ Done => /\ Len(responses) = 1
                  /\ Answer.status = 500
                  /\ Answer.body.error = <<"Falta API KEY">>

\* a request for a page, answered 500 with nothing read or fetched
C11_Witness ==
    /\ ~apiKey
    /\ request.kind = "object"
    /\ request.type = "url"
    /\ Done
    /\ Answer.status = 500
    /\ bodyReads = 0
    /\ fetches = <<>>

-----------------------------------------------------------------------------
(* The page fetcher *)

\* the target answered with a status outside 200..299
Refused == responseStatus # 0 /\ ~Ok(responseStatus)

\* C12: a non-success status of the target is told apart by cause: 403
\* names the status and the blocking, 429 the rate limiting, 400 the
\* rejected request, any other status reads HTTP <status>: <statusText>;
\* the message is the error of the 400 response as thrown, without the
\* generic access-failure prefix.
C12_StatusNamesItsCause ==
    (Done /\ Refused)
    => LET error == Answer.body.error IN
       /\ Answer.status = 400
       /\ error = scrapeError.message
       /\ error[1] = "HTTP"
       /\ ~Includes(error, AccessPrefix[1])
       /\ responseStatus = 403
            => Includes(error, "403") /\ Includes(error, "bloqueando bots")
       /\ responseStatus = 429 => Includes(error, "limitando el acceso")
       /\ responseStatus = 400 => Includes(error, "Solicitud invalida.")
       /\ responseStatus \notin {400, 403, 429}
            => error = <<"HTTP", ToString(responseStatus),
                         StatusText(responseStatus)>>

\* a target that answered 503, reported with its status text
C12_Witness ==
    /\ Done
    /\ responseStatus = 503
    /\ Answer.status = 400
    /\ Answer.body.error = <<"HTTP", "503", "Service Unavailable">>

\* C13: a fetch aborted by the 20 s timer, the target having sent nothing,
\* is reported with the Timeout message, never with the generic
\* access-failure message or an HTTP status message.
C13_AbortIsTimeout ==
    scrapeError.name = "AbortError"
    => /\ responseStatus = 0
       /\ Done
       /\ Answer.status = 400
       /\ Answer.body.error = TimeoutMsg
       /\ ~Includes(Answer.body.error, AccessPrefix[1])
       /\ ~Includes(Answer.body.error, "HTTP")

\* the timer fired while the one fetch was pending
C13_Witness ==
    /\ scrapeError.name = "AbortError"
    /\ Len(fetches) = 1
    /\ ~timerArmed
    /\ Answer.body.error = TimeoutMsg

\* C14: wherever the fetcher waits on the network for the target, for the
\* headers or for the body, the abort timer is armed.
C14_TimerArmedWhileWaiting ==
    pc \in {"fetching", "readingBody"} => timerArmed

-----------------------------------------------------------------------------
(* The structural extractor *)

\* scrapeWebsite returned the extractor's output to POST
Scraped == contentType = "contenido real de la web"

\* the number of segments of s that carry the tag
CountOf(s, tag) == Cardinality({k \in DOMAIN s : s[k].c = tag})

\* the number of elements of the kind in the document
RECURSIVE ElementsOf(_, _)
ElementsOf(h, kind) ==
    IF h = <<>> THEN 0
    ELSE (IF Head(h).kind = kind THEN Head(h).k ELSE 0)
         + ElementsOf(Tail(h), kind)

\* C15: whatever the document, on the structured path and on the fallback
\* path, the extractor returns at most 100,000 characters.
C15_OutputAtMost100000 ==
    /\ StrLength(extractTextFromHTML(fetchedHtml)) <= 100000
    /\ Scraped
         => /\ contentToAnalyze.s = extractTextFromHTML(fetchedHtml)
            /\ StrLength(contentToAnalyze.s) <= 100000

\* a document whose structured text exceeds the limit, returned cut to it
C15_Witness ==
    /\ Scraped
    /\ StrLength(StructuredText(fetchedHtml)) > 100000
    /\ StrLength(contentToAnalyze.s) = 100000

\* C16: pass 1 emits at most 10 SCRIPT segments, each with a body of at
\* most 2000 characters, and pass 3 at most 50 LINK entries, however many
\* scripts and links the document has.
C16_ScriptsAndLinksCapped ==
    LET scripts == ScriptsPass(fetchedHtml, 0)
        links == LinksPass(fetchedHtml, 0)
    IN  /\ CountOf(scripts, "SCRIPT") <= 10
        /\ \A k \in DOMAIN scripts :
              scripts[k].c = "SCRIPT" => scripts[k].n - (9 + 10) <= 2000
        /\ CountOf(links, "LINK") <= 50
        /\ Scraped => /\ CountOf(contentToAnalyze.s, "SCRIPT") <= 10
                      /\ CountOf(contentToAnalyze.s, "LINK") <= 50

\* a document with more than 10 short scripts and more than 50 links
C16_Witness ==
    /\ Scraped
    /\ ElementsOf(fetchedHtml, "script") > 10
    /\ ElementsOf(fetchedHtml, "link") > 50
    /\ CountOf(contentToAnalyze.s, "SCRIPT") = 10
    /\ CountOf(contentToAnalyze.s, "LINK") = 50

\* C17: when the passes yield fewer than 500 characters the output is
\* the HTML CONTENT block alone: no segment of the passes is in it.
C17_FallbackReplacesSegments ==
    (Scraped /\ StrLength(StructuredText(fetchedHtml)) < 500)
    => /\ Len(contentToAnalyze.s) = 1
       /\ contentToAnalyze.s[1].c = "HTML CONTENT"
       /\ \A tag \in {"SCRIPT", "META", "LINK", "FORM", "INPUT", "H1", "P"} :
             CountOf(contentToAnalyze.s, tag) = 0

\* a document whose passes emitted a segment, dropped for the fallback
C17_Witness ==
    /\ Scraped
    /\ StructuredText(fetchedHtml) # <<>>
    /\ StrLength(StructuredText(fetchedHtml)) < 500
    /\ CountOf(contentToAnalyze.s, "HTML CONTENT") = 1

-----------------------------------------------------------------------------
(* The recovery of the JSON object *)

\* the spans of t that parse as a JSON object
ObjectSpans(t) ==
    {ab \in (1..Len(t)) \X (1..Len(t)) :
        /\ ab[1] < ab[2]
        /\ t[ab[1]] = "{"
        /\ ParsesAsJSON(SubSeq(t, ab[1], ab[2]))}

\* where the one JSON object that ends t starts, leading prose before it
ObjectAfterProse(t) ==
    {a \in 2..Len(t) :
        /\ <<a, Len(t)>> \in ObjectSpans(t)
        /\ ObjectSpans(SubSeq(t, 1, a - 1)) = {}}

\* that object
TrailingObject(t) ==
    SubSeq(t, CHOOSE a \in ObjectAfterProse(t) : TRUE, Len(t))

\* C18: a reply made of leading prose followed by one balanced JSON
\* object is answered with exactly that object, the prose being ignored.
C18_ProseThenObjectYieldsObject ==
    (Done /\ text # <<>> /\ ObjectAfterProse(text) # {})
    => /\ Answer.status = 200
       /\ Answer.body.payload = TrailingObject(text)

\* C19: a reply in which no span parses as a JSON object never gets a 200
\* response carrying a parsed value.
C19_NoObjectNo200 ==
    (Done /\ text # <<>> /\ ObjectSpans(text) = {})
    => Answer.status # 200

-----------------------------------------------------------------------------
(* The response *)

\* C20: a request gets exactly one response: never more than one, and,
\* every call the handler awaits settling, one in the end.
C20_ExactlyOneResponse ==
    /\ [](Len(responses) <= 1)
    /\ <>[](Len(responses) = 1)

\* a request answered once after the body was read, the page fetched and
\* every backend called
C20_Witness ==
    /\ Done
    /\ Len(responses) = 1
    /\ bodyReads = 1
    /\ Len(fetches) = 1
    /\ Len(events) = 2 * Len(models)

-----------------------------------------------------------------------------
(* The prompt *)

\* the request submits a code snippet
CodeRequest ==
    /\ request.kind = "object"
    /\ request.type = "code"
    /\ request.content.t = "string"

\* the prompts given to the backends so far
Prompts == {events[k].prompt : k \in DOMAIN events}

\* C21: for a request of type code nothing is fetched and nothing is
\* extracted, and every prompt embeds the submitted snippet itself, whole
\* when it has at most 100,000 characters and cut to 100,000 otherwise.
C21_CodeBypassesFetcher ==
    CodeRequest
    => /\ fetches = <<>>
       /\ ~timerArmed
       /\ responseStatus = 0
       /\ fetchedHtml = <<>>
       /\ scrapeError = NoError
       /\ pc \notin {"scrape", "fetching", "readingBody"}
       /\ \A p \in Prompts :
             /\ p.contentType = "code"
             /\ IF StrLength(request.content.s) <= 100000
                THEN p.content = request.content.s
                ELSE /\ StrLength(p.content) = 100000
                     /\ Len(p.content) = 1
                     /\ p.content[1].c = request.content.s[1].c

\* a snippet of 100,001 characters, given to a backend cut to 100,000
C21_Witness ==
    /\ CodeRequest
    /\ StrLength(request.content.s) = 100001
    /\ Prompts # {}
    /\ \A p \in Prompts : StrLength(p.content) = 100000
    /\ fetches = <<>>

\* what the extractor had in hand before its final cut
Uncut(h) ==
    IF StrLength(Trim(StructuredText(h))) < 500 THEN FallbackBlock(h)
    ELSE StructuredText(h)

\* what was extracted or submitted, before any cut
Original == IF Scraped THEN Uncut(fetchedHtml) ELSE request.content.s

\* C22: a prompt whose content is a cut version of what was extracted or
\* submitted carries the truncation annotation, whether the prompt builder
\* or the extractor made the cut.
C22_TruncationAnnotated ==
    \A p \in Prompts :
        StrLength(p.content) < StrLength(Original) => p.annotated

-----------------------------------------------------------------------------
(* The threshold of the fallback and the scripts of pass 1 *)

\* the extractor returned the HTML CONTENT block
FallbackReturned ==
    /\ Len(contentToAnalyze.s) = 1
    /\ contentToAnalyze.s[1].c = "HTML CONTENT"

\* C23 as stated: the fallback block is produced exactly when the passes
\* yield under 500 characters; 500 characters or more are always kept.
C23_FallbackIffUnder500 ==
    Scraped
    => (FallbackReturned <=> StrLength(StructuredText(fetchedHtml)) < 500)

\* C23 amended: the fallback block is produced exactly when the passes'
\* output, blanks at both ends not counted, is under 500 characters;
\* otherwise the output is kept, up to the final cut.
C23_FallbackIffTrimmedUnder500 ==
    Scraped
    => LET kept == StructuredText(fetchedHtml) IN
       /\ FallbackReturned <=> StrLength(Trim(kept)) < 500
       /\ StrLength(Trim(kept)) >= 500
            => /\ StrLength(kept) <= 100000 => contentToAnalyze.s = kept
               /\ contentToAnalyze.s[1] = kept[1]

\* passes that gave 500 characters, 499 without the final line break
C23_Witness ==
    /\ Scraped
    /\ StrLength(StructuredText(fetchedHtml)) = 500
    /\ StrLength(Trim(StructuredText(fetchedHtml))) = 499
    /\ FallbackReturned

\* the scripts of the document whose body has n characters, counted among
\* its first m <script> matches (all of them, or the qualifying ones only)
RECURSIVE AmongFirst(_, _, _, _)
AmongFirst(h, m, n, qualifying) ==
    IF h = <<>> \/ m <= 0 THEN 0
    ELSE LET e == Head(h)
             counts == /\ e.kind = "script"
                       /\ qualifying => (e.n > 0 /\ e.n < 2000)
             here == IF e.k < m THEN e.k ELSE m
         IN  (IF counts /\ e.n = n THEN here ELSE 0)
             + AmongFirst(Tail(h), IF counts THEN m - here ELSE m, n,
                          qualifying)

\* the SCRIPT segments of s whose body has n characters
ScriptsOfBody(s, n) ==
    Cardinality({k \in DOMAIN s : s[k].c = "SCRIPT" /\ s[k].n = 9 + n + 10})

\* the body lengths of the document's scripts
Bodies(h) == {h[k].n : k \in {j \in DOMAIN h : h[j].kind = "script"}}

\* C24 as stated: every emitted SCRIPT segment comes from one of the
\* first 10 <script> matches of the document.
C24_EmittedAmongFirstTenMatches ==
    \A n \in Bodies(fetchedHtml) :
        ScriptsOfBody(ScriptsPass(fetchedHtml, 0), n)
            <= AmongFirst(fetchedHtml, 10, n, FALSE)

\* C24 amended: the emitted SCRIPT segments are the first 10 scripts of
\* the document whose size qualifies; matches that do not qualify are
\* skipped without being counted.
C24_EmittedAreFirstTenQualifying ==
    /\ \A n \in Bodies(fetchedHtml) :
          ScriptsOfBody(ScriptsPass(fetchedHtml, 0), n)
              = AmongFirst(fetchedHtml, 10, n, TRUE)
    /\ (Scraped /\ ~FallbackReturned
            /\ StrLength(StructuredText(fetchedHtml)) <= 100000)
         => \A n \in Bodies(fetchedHtml) :
               ScriptsOfBody(contentToAnalyze.s, n)
                   = AmongFirst(fetchedHtml, 10, n, TRUE)

\* a page whose 10th to 13th scripts were emitted, three of its first ten
\* being too long
C24_Witness ==
    /\ Scraped
    /\ AmongFirst(fetchedHtml, 10, 2500, FALSE) = 3
    /\ AmongFirst(fetchedHtml, 10, 7, FALSE) = 1
    /\ ScriptsOfBody(contentToAnalyze.s, 7) = 4

-----------------------------------------------------------------------------
(* The URL that is fetched *)

\* the URL submitted, blanks at both ends removed
Submitted == Trim(request.content.s)

\* the URL starts with one of the two schemes
HasScheme(url) == url # <<>> /\ url[1].c \in {"http://", "https://"}

\* C26: a trimmed URL that starts with http:// or https:// is fetched as
\* it is, any other with https:// put in front, and normalising the
\* fetched URL again changes nothing.
C26_UrlNormalisation ==
    fetches # <<>>
    => /\ Len(fetches) = 1
       /\ HasScheme(Submitted) => fetches[1] = Submitted
       /\ ~HasScheme(Submitted)
            => fetches[1] = <<[c |-> "https://", n |-> 8]>> \o Submitted
       /\ HasScheme(fetches[1])
       /\ NormalizeUrl(fetches[1]) = fetches[1]

\* a URL sent with a blank before it and no scheme
C26_Witness ==
    /\ request.kind = "object"
    /\ request.type = "url"
    /\ request.content.s = <<Ws(1), Ch(1)>>
    /\ fetches = << <<[c |-> "https://", n |-> 8], Ch(1)>> >>

-----------------------------------------------------------------------------
(* The output of the extractor on sparse pages *)

\* C27: whatever the document, the empty one included, the extractor
\* returns a string that is not blank: the passes' text when it has 500
\* characters or more once trimmed, the HTML CONTENT wrapper otherwise;
\* the fetcher's empty-content error is never thrown.
C27_ExtractorNeverBlank ==
    /\ \A h \in Htmls \cup {fetchedHtml} :
          LET out == extractTextFromHTML(h) IN
          /\ StrLength(Trim(out)) > 0
          /\ \/ Len(out) = 1 /\ out[1].c = "HTML CONTENT" /\ out[1].n >= 31
             \/ StrLength(Trim(out)) >= 500
    /\ scrapeError.message # <<"El contenido de la web esta vacio">>
    /\ Scraped => StrLength(Trim(contentToAnalyze.s)) > 0

\* a page in which no pass finds anything, answered with the wrapper
C27_Witness ==
    /\ Scraped
    /\ StructuredText(fetchedHtml) = <<>>
    /\ FallbackReturned
    /\ StrLength(contentToAnalyze.s) > 31

\* C28: on the fallback path the cleaned document is cut to 30,000
\* characters before it is wrapped: the block has at most 30,031
\* characters and is returned whole, opening and closing tag included.
C28_FallbackBlockWhole ==
    (Scraped /\ FallbackReturned)
    => LET clean == CleanLength(fetchedHtml)
           kept == IF clean < 30000 THEN clean ELSE 30000
       IN  /\ contentToAnalyze.s[1].n = 15 + kept + 16
           /\ contentToAnalyze.s[1].n <= 30031
           /\ contentToAnalyze.s[1].n < 100000

\* a sparse page of 40,000 characters, wrapped cut to 30,000
C28_Witness ==
    /\ Scraped
    /\ FallbackReturned
    /\ CleanLength(fetchedHtml) > 30000
    /\ contentToAnalyze.s[1].n = 30031

-----------------------------------------------------------------------------
(* The body read inside the loop *)

\* the backend was called with the prompt made of the request's type and
\* content
ReallyInvoked(m) ==
    \E k \in DOMAIN events :
        /\ events[k].op = "invoke"
        /\ events[k].model = m
        /\ events[k].prompt = VariantPrompt(request.type, request.content)

\* C29: where the body is read inside the loop, a backend that failed is
\* followed by a real call of the next backend of the list, with the
\* prompt of the request.
C29_NextBackendStillInvoked ==
    Done
    => \A k \in DOMAIN events :
          (/\ IsSettle(events[k])
           /\ events[k].outcome # "text"
           /\ ModelIndex(events[k].model) < Len(models))
          => ReallyInvoked(models[ModelIndex(events[k].model) + 1])

-----------------------------------------------------------------------------
(* The progress shown by the page *)

\* C25: once the result of the API has arrived and the audit is
\* completed, progress is 100 and stays 100 until the user resets: the
\* simulation still running does not set it lower.
C25_ProgressStays100 ==
    auditStatus = "completed" => progress = 100

\* C30: while an audit is processing its progress never decreases and
\* every log entry in its view was written by that audit's own code: the
\* simulation of an earlier audit, ended and reset, writes nothing there.
C30_OnlyOwnSimulationWrites ==
    auditStatus = "processing"
    => /\ ~decreased
       /\ \A k \in DOMAIN logs : logs[k].by = CurrentAudit

=============================================================================
